---- MODULE Spec2Model ----
(***************************************************************************)
(* Model of server_manager/vbox.py: the metric store kept by              *)
(* VboxMetricDaemon, the polling loop _query_metrics, the readers that go  *)
(* through VirtualMachine.get_metric_history, VirtualMachineInfo, the      *)
(* parsing functions, and the lifecycle button handlers of main.py.        *)
(***************************************************************************)
EXTENDS Integers, Sequences, FiniteSets, TLC

(***************************************************************************)
(* Bounds of the model.                                                    *)
(***************************************************************************)
\* Machine ids the hypervisor may list, in the order "list vms" prints them.
VMOrder == <<"vm1", "vm2">>
VMs == {VMOrder[i] : i \in 1..Len(VMOrder)}

\* self.tick_number (120 in the source), the capacity of every series.
tick_number == 2

\* Ticks the daemon may start.
MaxTicks == 3

(***************************************************************************)
(* Values.                                                                 *)
(***************************************************************************)
\* float("nan"); real samples are the non-negative numbers.
NaN == -1

\* class Metrics: the six tracked counters.
Metrics == {"Guest/CPU/Load/User", "Guest/CPU/Load/Kernel",
            "Guest/RAM/Usage/Total", "Guest/RAM/Usage/Free",
            "Disk/Usage/Used", "Guest/RAM/Usage/Cache"}

\* The order in which _query_metrics queries the counters of one machine.
QueryOrder == <<"Guest/CPU/Load/Kernel", "Guest/CPU/Load/User",
                "Guest/RAM/Usage/Total", "Guest/RAM/Usage/Free",
                "Disk/Usage/Used", "Guest/RAM/Usage/Cache">>

\* The keys of one store entry.
Keys == Metrics \cup {"time_stamp"}

\* self.interval_seconds (0.2 s).  Time is counted in units of
\* 0.2 / (tick_number - 1) seconds, which makes every linspace point an
\* integer: one interval is tick_number - 1 units.
interval_seconds == tick_number - 1

\* linspace without its end point (endpoint=False).
linspace_open(start, stop, num) ==
    [i \in 1..num |-> start + ((i - 1) * (stop - start)) \div num]

\* numpy.linspace(start, stop, num): num evenly spaced points, both ends
\* included.
linspace(start, stop, num) ==
    [i \in 1..num |-> start + ((i - 1) * (stop - start)) \div (num - 1)]

\* time_stamps of _refresh_metrics_storage.
time_stamps == linspace(-(tick_number * interval_seconds), 0, tick_number)

\* [float("nan")] * self.tick_number
nan_series == [i \in 1..tick_number |-> NaN]

\* The entry _refresh_metrics_storage builds for an id it does not hold yet.
NewEntry ==
    [k \in Keys |-> IF k = "time_stamp" THEN time_stamps ELSE nan_series]

\* A resynchronization that seeds every discovered machine anew.
_refresh_reseeding(old, discovered) ==
    [id \in discovered |-> NewEntry]

\* A resynchronization that keeps the entries of machines no longer listed.
_refresh_additive(old, discovered) ==
    [id \in discovered \cup DOMAIN old |->
        IF id \notin DOMAIN old THEN NewEntry ELSE old[id]]

\* A resynchronization that rolls the time axis of the entries it keeps.
_refresh_restamping(old, discovered) ==
    [id \in discovered |->
        IF id \notin DOMAIN old THEN NewEntry
        ELSE [old[id] EXCEPT !["time_stamp"] = Append(Tail(@), 0)]]

\* The dict comprehension of _refresh_metrics_storage: one entry per
\* discovered machine, the old one if the id is already a key.
_refresh_metrics_storage(old, discovered) ==
    [id \in discovered |-> IF id \notin DOMAIN old THEN NewEntry ELSE old[id]]

\* No eviction at all.
pop_nothing(s) == s

\* list.pop(): the newest sample goes, not the oldest.
pop_last(s) == SubSeq(s, 1, Len(s) - 1)

\* list.pop(0)
pop0(s) == Tail(s)

\* log_error: prints the exception and re-raises it.  The result is the
\* exception that leaves the with block ("none": nothing leaves it).
log_error(exc) == exc

\* subprocess.run(..., check=True): a nonzero exit code raises.
run_checked(out) ==
    IF out.exc = "none" /\ out.returncode # 0
    THEN [out EXCEPT !.exc = "CalledProcessError"]
    ELSE out

\* VBoxManage.run: subprocess.run without check.  out is what the process
\* did: exc is the exception subprocess.run raises ("none": it returns),
\* returncode the exit code.  The caller gets the completed process with
\* whatever exit code it has.
run(out) == out

\* What a hypervisor invocation can do when only its exit matters.
RunOutcomes ==
    {[exc |-> "none", returncode |-> 0],
     [exc |-> "none", returncode |-> 1],
     [exc |-> "OSError", returncode |-> 0]}

\* metrics_enable: the run, its result dropped.  The result here is the
\* exception raised.
metrics_enable(out) == run(out).exc

\* metrics_setup: the run, its result dropped.
metrics_setup(out) == run(out).exc

\* The run of metrics_collect without the suppress around it.
metrics_collect_unsuppressed(out) == run(out).exc

\* metrics_collect: suppress(subprocess.TimeoutExpired) around the run.
metrics_collect(out) ==
    IF run(out).exc = "TimeoutExpired" THEN "none" ELSE run(out).exc

\* What the "metrics collect" invocation, run with timeout=1, can do.
CollectOutcomes ==
    RunOutcomes \cup {[exc |-> "TimeoutExpired", returncode |-> 0]}

\* list_vm: the run, the assert on the return code, one machine per
\* matching line.  out is what the hypervisor did; the result is the
\* exception raised ("none") and the ids yielded.
list_vm(out) ==
    IF run(out).exc # "none" THEN [exc |-> run(out).exc, ids |-> <<>>]
    ELSE IF run(out).returncode # 0 THEN [exc |-> "AssertionError", ids |-> <<>>]
    ELSE [exc |-> "none", ids |-> SelectSeq(VMOrder, LAMBDA id : id \in out.vms)]

\* What a "list vms" invocation can do: vms are the machines its output
\* has a line for.
ListOutcomes ==
    {[exc |-> "none", returncode |-> 0, vms |-> S] : S \in SUBSET VMs}
    \cup {[exc |-> "none", returncode |-> 1, vms |-> {}],
          [exc |-> "none", returncode |-> 1, vms |-> VMs],
          [exc |-> "OSError", returncode |-> 0, vms |-> {}]}

Range(s) == {s[i] : i \in 1..Len(s)}

VARIABLES
    keep_alive,  \* self.keep_alive
    metrics,     \* self.metrics: id -> key -> series
    pc,          \* where the daemon thread is in _query_metrics
    listed,      \* ids returned by the daemon's latest list_vm call
    todo,        \* machines the for loop of _query_metrics has yet to finish
    ctr,         \* index in QueryOrder of the counter being queried
    ticks,       \* ticks started so far
    avail,       \* whether the latest collection pass left data to query
    hist,        \* id -> counter -> values appended since the entry was made
    appended,    \* <<id, counter>> appended and evicted in the latest for loop
    failed,      \* <<id, counter>> whose query raised in the latest for loop
    cause,       \* the exception that ended the daemon thread, or "none"
    before,      \* the ids of the store before the latest resynchronization
    timedOut,    \* whether the latest metrics_collect run timed out, where kept
    rdVm,        \* the machine a reader got from its own list_vm call
    rdObs,       \* what the reader's get_metric_history call found
    hvState,     \* id -> the state the hypervisor holds the machine in
    _info,       \* id -> self._info of the machine's VirtualMachineInfo
    raised,      \* the exception the latest reload() call raised, or "none"
    lc,          \* what the latest lifecycle button handler did
    call         \* the latest call of a parsing function: argument and result

vars == <<keep_alive, metrics, pc, listed, todo, ctr, ticks, avail,
          hist, appended, failed, cause, before, timedOut, rdVm, rdObs,
          hvState, _info, raised, lc, call>>

daemonVars == <<keep_alive, metrics, pc, listed, todo, ctr, ticks, avail,
                hist, appended, failed, cause, before, timedOut>>
readerVars == <<rdVm, rdObs>>
infoVars == <<hvState, _info, raised, lc>>
parseVars == <<call>>

NoHist == [k \in Metrics |-> <<>>]
Idle == [err |-> "idle", len |-> 0, ts |-> 0]

\* No lifecycle button has been clicked yet.
NoClick == [action |-> "none", exc |-> "none", issued |-> 0, reloads |-> 0,
            state |-> "none", report |-> "none"]

\* No parsing function has been called yet.
NoCall == [fn |-> "none", arg |-> <<>>, name |-> "none",
           ret |-> [exc |-> "none", value |-> 0]]

\* hist after a resynchronization: kept for the ids that keep their entry.
HistAfter(old, oldHist, discovered) ==
    [id \in discovered |-> IF id \in DOMAIN old THEN oldHist[id] ELSE NoHist]

(***************************************************************************)
(* VboxMetricDaemon.__init__ has run: the store was filled by the first    *)
(* _refresh_metrics_storage and the thread was started.                    *)
(***************************************************************************)
Init ==
    /\ keep_alive = TRUE
    /\ \E out \in ListOutcomes :
         /\ list_vm(out).exc = "none"
         /\ listed = Range(list_vm(out).ids)
         /\ metrics = _refresh_metrics_storage(<<>>, Range(list_vm(out).ids))
         /\ hist = HistAfter(<<>>, <<>>, Range(list_vm(out).ids))
    /\ pc = "loop"
    /\ todo = <<>>
    /\ ctr = 1
    /\ ticks = 0
    /\ avail = TRUE
    /\ appended = {}
    /\ failed = {}
    /\ cause = "none"
    /\ before = {}
    /\ timedOut = FALSE
    /\ rdVm = "none"
    /\ rdObs = Idle
    /\ hvState = [id \in VMs |-> "poweroff"]
    /\ _info = <<>>
    /\ raised = "none"
    /\ lc = NoClick
    /\ call = NoCall

\* An exception leaves _query_metrics: the thread ends.
Die(exc) ==
    /\ pc' = "dead"
    /\ cause' = exc

\* while self.keep_alive:
LoopTest ==
    /\ pc = "loop"
    /\ IF keep_alive
       THEN /\ ticks < MaxTicks
            /\ pc' = "enable"
            /\ ticks' = ticks + 1
       ELSE /\ pc' = "done"
            /\ UNCHANGED ticks
    /\ UNCHANGED <<keep_alive, metrics, listed, todo, ctr, avail, hist,
                   appended, failed, cause, before>>
    /\ UNCHANGED <<readerVars, infoVars, parseVars, timedOut>>

\* self.vbox.metrics_enable()
EnableWith(out) ==
    /\ pc = "enable"
    /\ IF metrics_enable(out) = "none"
       THEN pc' = "collect" /\ UNCHANGED cause
       ELSE Die(metrics_enable(out))
    /\ UNCHANGED <<keep_alive, metrics, listed, todo, ctr, ticks, avail,
                   hist, appended, failed, before>>
    /\ UNCHANGED <<readerVars, infoVars, parseVars, timedOut>>

Enable == \E out \in RunOutcomes : EnableWith(out)

\* self.vbox.metrics_collect().  The pass leaves the hypervisor with data
\* for this tick's queries, or without.
CollectCore(out) ==
    /\ pc = "collect"
    /\ IF metrics_collect(out) = "none"
       THEN /\ pc' = "refresh"
            /\ avail' \in BOOLEAN
            /\ UNCHANGED cause
       ELSE /\ Die(metrics_collect(out))
            /\ UNCHANGED avail
    /\ UNCHANGED <<keep_alive, metrics, listed, todo, ctr, ticks, hist, appended,
                   failed, before>>
    /\ UNCHANGED <<readerVars, infoVars, parseVars>>

Collect == \E out \in CollectOutcomes : CollectCore(out) /\ UNCHANGED timedOut

\* The same step, with the record of whether the run timed out kept.
CollectTimed ==
    \E out \in CollectOutcomes :
        CollectCore(out) /\ timedOut' = (run(out).exc = "TimeoutExpired")

\* self._refresh_metrics_storage() inside the loop
RefreshWith(out) ==
    /\ pc = "refresh"
    /\ LET r == list_vm(out) IN
         IF r.exc = "none"
         THEN /\ metrics' = _refresh_metrics_storage(metrics, Range(r.ids))
              /\ hist' = HistAfter(metrics, hist, Range(r.ids))
              /\ listed' = Range(r.ids)
              /\ before' = DOMAIN metrics
              /\ pc' = "list"
              /\ UNCHANGED cause
         ELSE /\ Die(r.exc)
              /\ UNCHANGED <<metrics, hist, listed, before>>
    /\ UNCHANGED <<keep_alive, todo, ctr, ticks, avail, appended, failed>>
    /\ UNCHANGED <<readerVars, infoVars, parseVars, timedOut>>

Refresh == \E out \in ListOutcomes : RefreshWith(out)

\* for vm in self.vbox.list_vm():
ListVmsWith(out) ==
    /\ pc = "list"
    /\ LET r == list_vm(out) IN
         IF r.exc = "none"
         THEN /\ todo' = r.ids
              /\ listed' = Range(r.ids)
              /\ appended' = {}
              /\ failed' = {}
              /\ pc' = IF r.ids = <<>> THEN "sleep" ELSE "setup"
              /\ UNCHANGED cause
         ELSE /\ Die(r.exc)
              /\ UNCHANGED <<todo, listed, appended, failed>>
    /\ UNCHANGED <<keep_alive, metrics, ctr, ticks, avail, hist, before>>
    /\ UNCHANGED <<readerVars, infoVars, parseVars, timedOut>>

ListVms == \E out \in ListOutcomes : ListVmsWith(out)

\* self.vbox.metrics_setup(self.interval_seconds, 1, vm.id) and
\* vm_metric_data = self.metrics.get(vm.id, {})
SetupWith(out) ==
    /\ pc = "setup"
    /\ IF metrics_setup(out) = "none"
       THEN pc' = "query" /\ ctr' = 1 /\ UNCHANGED cause
       ELSE Die(metrics_setup(out)) /\ UNCHANGED ctr
    /\ UNCHANGED <<keep_alive, metrics, listed, todo, ticks, avail, hist,
                   appended, failed, before>>
    /\ UNCHANGED <<readerVars, infoVars, parseVars, timedOut>>

Setup == \E out \in RunOutcomes : SetupWith(out)

\* Control that passes over every other counter.
AfterCounter_skipping ==
    IF ctr + 1 < Len(QueryOrder)
    THEN pc' = "query" /\ ctr' = ctr + 2
    ELSE pc' = "store" /\ UNCHANGED ctr

\* Control after the with block of counter number ctr is left.
AfterCounter ==
    IF ctr < Len(QueryOrder)
    THEN pc' = "query" /\ ctr' = ctr + 1
    ELSE pc' = "store" /\ UNCHANGED ctr

\* An exception is raised inside the with log_error() block.
Raised(exc) ==
    IF log_error(exc) = "none"
    THEN AfterCounter /\ UNCHANGED cause
    ELSE Die(log_error(exc)) /\ UNCHANGED ctr

\* What vm.query_metric(K.value, parser) can do in tick t: return NaN when
\* the output holds no data, return the parsed number (one that tells the
\* ticks apart), or raise: the parser on malformed text, the run itself.
QueryOutcomes(t, hasData) ==
    {[exc |-> "none", value |-> IF hasData THEN t ELSE NaN],
     [exc |-> "ValueError", value |-> NaN],
     [exc |-> "OSError", value |-> NaN]}

\* A query that raises still leaves a placeholder sample behind.
query_and_append_placeholder(series, res) ==
    IF res.exc = "none" THEN Append(series, res.value) ELSE Append(series, NaN)

\* series.append(vm.query_metric(...)): the argument is evaluated first, so
\* a query that raises leaves before append is called.
query_and_append(series, res) ==
    IF res.exc = "none" THEN Append(series, res.value) ELSE series

\* vm_metric_data[K].append(vm.query_metric(K.value, parser)): the series is
\* looked up, the query runs, its value is appended.
QueryAppend ==
    /\ pc = "query"
    /\ LET id == Head(todo)
           k == QueryOrder[ctr]
       IN IF id \notin DOMAIN metrics
          THEN \* vm_metric_data is the fresh {}: the lookup raises
               /\ Raised("KeyError")
               /\ UNCHANGED <<metrics, hist, failed>>
          ELSE \E res \in QueryOutcomes(ticks, avail) :
                 /\ metrics' = [metrics EXCEPT ![id][k] = query_and_append(@, res)]
                 /\ IF res.exc = "none"
                    THEN /\ hist' = [hist EXCEPT ![id][k] = Append(@, res.value)]
                         /\ pc' = "pop"
                         /\ UNCHANGED <<ctr, cause, failed>>
                    ELSE /\ failed' = failed \cup {<<id, k>>}
                         /\ Raised(res.exc)
                         /\ UNCHANGED hist
    /\ UNCHANGED <<keep_alive, listed, todo, ticks, avail, appended,
                   before>>
    /\ UNCHANGED <<readerVars, infoVars, parseVars, timedOut>>

\* vm_metric_data[K].pop(0)
Pop ==
    /\ pc = "pop"
    /\ LET id == Head(todo)
           k == QueryOrder[ctr]
       IN /\ metrics' = [metrics EXCEPT ![id][k] = pop0(@)]
          /\ appended' = appended \cup {<<id, k>>}
    /\ AfterCounter
    /\ UNCHANGED <<keep_alive, listed, todo, ticks, avail, hist, failed,
                   cause, before>>
    /\ UNCHANGED <<readerVars, infoVars, parseVars, timedOut>>

\* self.metrics[vm.id] = vm_metric_data, then the next machine
Store ==
    /\ pc = "store"
    /\ LET id == Head(todo)
           vm_metric_data == IF id \in DOMAIN metrics THEN metrics[id] ELSE <<>>
       IN metrics' = (id :> vm_metric_data) @@ metrics
    /\ todo' = Tail(todo)
    /\ pc' = IF Tail(todo) = <<>> THEN "sleep" ELSE "setup"
    /\ UNCHANGED <<keep_alive, listed, ctr, ticks, avail, hist, appended,
                   failed, cause, before>>
    /\ UNCHANGED <<readerVars, infoVars, parseVars, timedOut>>

\* time.sleep(self.interval_seconds)
Sleep ==
    /\ pc = "sleep"
    /\ pc' = "loop"
    /\ UNCHANGED <<keep_alive, metrics, listed, todo, ctr, ticks, avail,
                   hist, appended, failed, cause, before>>
    /\ UNCHANGED <<readerVars, infoVars, parseVars, timedOut>>

\* Some other thread clears the flag.
Stop ==
    /\ keep_alive
    /\ keep_alive' = FALSE
    /\ UNCHANGED <<metrics, pc, listed, todo, ctr, ticks, avail, hist,
                   appended, failed, cause, before>>
    /\ UNCHANGED <<readerVars, infoVars, parseVars, timedOut>>

\* A reader thread takes a machine from its own vbox.list_vm() call.
ReaderDiscover ==
    /\ \E out \in ListOutcomes :
         /\ list_vm(out).exc = "none"
         /\ \E id \in Range(list_vm(out).ids) : rdVm' = id
    /\ rdObs' = Idle
    /\ UNCHANGED <<daemonVars, infoVars, parseVars>>

\* VirtualMachine.get_metric_history(metric) and a look at the list it
\* returns, next to the time_stamp list of the same machine.
get_metric_history(id, metric) ==
    IF id \in DOMAIN metrics
    THEN [err |-> "none", len |-> Len(metrics[id][metric]),
          ts |-> Len(metrics[id]["time_stamp"])]
    ELSE [err |-> "KeyError", len |-> 0, ts |-> 0]

ReaderRead ==
    /\ rdVm # "none"
    /\ \E metric \in Metrics : rdObs' = get_metric_history(rdVm, metric)
    /\ rdVm' = "none"
    /\ UNCHANGED <<daemonVars, infoVars, parseVars>>

Next ==
    \/ LoopTest
    \/ Enable
    \/ Collect
    \/ Refresh
    \/ ListVms
    \/ Setup
    \/ QueryAppend
    \/ Pop
    \/ Store
    \/ Sleep
    \/ Stop
    \/ ReaderDiscover
    \/ ReaderRead

Spec == Init /\ [][Next]_vars

\* The daemon thread and the thread that clears its flag, no reader
\* scheduled.
NextDaemon ==
    \/ LoopTest
    \/ Enable
    \/ CollectTimed
    \/ Refresh
    \/ ListVms
    \/ Setup
    \/ QueryAppend
    \/ Pop
    \/ Store
    \/ Sleep
    \/ Stop

SpecDaemon == Init /\ [][NextDaemon]_vars

(***************************************************************************)
(* VirtualMachineInfo: the attribute snapshot of one machine.              *)
(***************************************************************************)
\* Values of VMState the hypervisor reports.
RawStates == {"running", "poweroff", "paused", "saved"}

\* A line of output is the sequence of its pieces: "=", the double quote,
\* and words (runs of other characters).
\* showvminfo --machinereadable for a machine in state s.
Dump(s) ==
    <<<<"VMState", "=", "\"", s, "\"">>,
      <<"ostype", "=", "\"", "Linux", "\"">>,
      <<"Time", "offset:", "0">>>>

\* What VBoxManage.run("showvminfo", id, "--machinereadable") can do for a
\* machine in state s: fail to start the process, or return, with exit
\* code 0 and the dump, or with another exit code and no or cut-off output.
ShowVmInfoOutcomes(s) ==
    {[exc |-> "OSError", returncode |-> 0, stdout |-> <<>>],
     [exc |-> "none", returncode |-> 0, stdout |-> Dump(s)],
     [exc |-> "none", returncode |-> 1, stdout |-> <<>>],
     [exc |-> "none", returncode |-> 1, stdout |-> SubSeq(Dump(s), 1, 1)]}

\* str.strip('"')
RECURSIVE strip_quotes(_)
strip_quotes(s) ==
    IF s # <<>> /\ Head(s) = "\"" THEN strip_quotes(Tail(s))
    ELSE IF s # <<>> /\ s[Len(s)] = "\"" THEN strip_quotes(SubSeq(s, 1, Len(s) - 1))
    ELSE s

\* Where line.split("=", 1) cuts.
FirstEq(line) ==
    CHOOSE i \in 1..Len(line) :
        line[i] = "=" /\ \A j \in 1..(i - 1) : line[j] # "="

\* dict(_()) in reload: one key per line that holds "=", later lines win.
RECURSIVE parse_lines(_, _)
parse_lines(lines, acc) ==
    IF lines = <<>> THEN acc
    ELSE LET line == Head(lines) IN
         IF "=" \notin Range(line) THEN parse_lines(Tail(lines), acc)
         ELSE LET i == FirstEq(line)
                  key == strip_quotes(SubSeq(line, 1, i - 1))
                  value == strip_quotes(SubSeq(line, i + 1, Len(line)))
              IN parse_lines(Tail(lines), (key :> value) @@ acc)

\* VirtualMachineInfo.reload: the run, then self._info = dict(_()).  The
\* return code is not looked at.  The result is the exception raised and
\* the snapshot the object holds afterwards.
reload(old, out) ==
    IF run(out).exc # "none" THEN [exc |-> run(out).exc, info |-> old]
    ELSE [exc |-> "none", info |-> parse_lines(run(out).stdout, <<>>)]

\* VirtualMachineInfo.__init__ (vm.info): self._info = {} and a reload; no
\* object is made when that reload raises.
InfoNew(id) ==
    /\ id \notin DOMAIN _info
    /\ \E out \in ShowVmInfoOutcomes(hvState[id]) :
         LET r == reload(<<>>, out) IN
         /\ raised' = r.exc
         /\ _info' = IF r.exc = "none" THEN (id :> r.info) @@ _info ELSE _info
    /\ UNCHANGED <<hvState, lc, daemonVars, readerVars, parseVars>>

\* vm.info.reload() with the hypervisor doing out.
ReloadWith(id, out) ==
    /\ id \in DOMAIN _info
    /\ LET r == reload(_info[id], out) IN
         /\ raised' = r.exc
         /\ _info' = [_info EXCEPT ![id] = r.info]
    /\ UNCHANGED <<hvState, lc, daemonVars, readerVars, parseVars>>

Reload(id) ==
    \E out \in ShowVmInfoOutcomes(hvState[id]) : ReloadWith(id, out)

\* The hypervisor moves a machine to another state.
HvChange(id) ==
    /\ \E s \in RawStates \ {hvState[id]} :
         hvState' = [hvState EXCEPT ![id] = s]
    /\ UNCHANGED <<_info, raised, lc, daemonVars, readerVars, parseVars>>

\* class VMState: member name -> value.
VMStateMembers ==
    [Running |-> "running", PowerOff |-> "poweroff", Paused |-> "paused",
     Saving |-> "saving", Saved |-> "saved", Restoring |-> "restoring",
     Aborted |-> "aborted", Other |-> "other"]

\* Enum's own behaviour for a value that no member has.
_missing_default(value) == "ValueError"

\* VMState._missing_
_missing_(value) == "Other"

\* VMState(value): the member that has the value, else _missing_.  A str
\* is the sequence of its pieces; a member value is one word.
VMState(value) ==
    IF \E m \in DOMAIN VMStateMembers : value = <<VMStateMembers[m]>>
    THEN CHOOSE m \in DOMAIN VMStateMembers : value = <<VMStateMembers[m]>>
    ELSE _missing_(value)

\* str.casefold on one piece of a str, for the pieces the hypervisor output
\* is made of here: the words and letters that hold an upper-case letter,
\* and the rest.
casefold(w) ==
    CASE w \in {"Running", "RUNNING"} -> "running"
      [] w \in {"PowerOff", "POWEROFF"} -> "poweroff"
      [] w \in {"Paused", "PAUSED"} -> "paused"
      [] w \in {"Saving", "SAVING"} -> "saving"
      [] w \in {"Saved", "SAVED"} -> "saved"
      [] w \in {"Restoring", "RESTORING"} -> "restoring"
      [] w \in {"Aborted", "ABORTED"} -> "aborted"
      [] w \in {"Other", "OTHER"} -> "other"
      [] w = "Stuck" -> "stuck"
      [] w = "B" -> "b"
      [] w = "K" -> "k"
      [] w = "M" -> "m"
      [] w = "G" -> "g"
      [] w = "T" -> "t"
      [] OTHER -> w

\* str.casefold
str_casefold(s) == [i \in 1..Len(s) |-> casefold(s[i])]

\* VirtualMachineInfo.state
state(info) ==
    LET raw == IF <<"VMState">> \in DOMAIN info THEN info[<<"VMState">>] ELSE <<>>
    IN VMState(str_casefold(raw))

\* What an instance of VirtualMachine has: the attributes __init__ sets and
\* the members the class defines.
VirtualMachineAttrs ==
    {"manage", "id", "name", "users", "info", "query_metric", "_metrics",
     "get_metric_history", "guest_control_run", "_run"}

\* The button handlers of _vm_control_buttons: the method each calls on
\* vm and the state it then compares vm.info.state with.
LifecycleTarget ==
    [start |-> "Running", shutdown |-> "PowerOff", kill |-> "PowerOff",
     pause |-> "Paused", save |-> "Saved", resume |-> "Running"]

\* getattr(vm, name): AttributeError for a name the instance lacks.
getattr(name) == IF name \in VirtualMachineAttrs THEN "none" ELSE "AttributeError"

\* One click on a lifecycle button of machine id: _start, _shutdown, _kill,
\* _pause, _save or _resume.  vm.<action>() comes first; the exception it
\* raises leaves the handler.  Past it come the sleep, vm.info.reload()
\* and the comparison that picks the toast.
Click(id, action) ==
    /\ id \in DOMAIN _info
    /\ IF getattr(action) # "none"
       THEN /\ lc' = [action |-> action, exc |-> getattr(action), issued |-> 0,
                      reloads |-> 0, state |-> "none", report |-> "none"]
            /\ UNCHANGED <<hvState, _info, raised>>
       ELSE \E s \in RawStates :
            \E out \in ShowVmInfoOutcomes(s) :
              LET r == reload(_info[id], out) IN
              /\ hvState' = [hvState EXCEPT ![id] = s]
              /\ raised' = r.exc
              /\ _info' = [_info EXCEPT ![id] = r.info]
              /\ lc' = IF r.exc # "none"
                       THEN [action |-> action, exc |-> r.exc, issued |-> 1,
                             reloads |-> 1, state |-> "none", report |-> "none"]
                       ELSE [action |-> action, exc |-> "none", issued |-> 1,
                             reloads |-> 1, state |-> state(r.info),
                             report |-> IF state(r.info) = LifecycleTarget[action]
                                        THEN "success" ELSE "failure"]
    /\ UNCHANGED <<daemonVars, readerVars, parseVars>>

NextInfo ==
    \/ \E id \in VMs : InfoNew(id)
    \/ \E id \in VMs : Reload(id)
    \/ \E id \in VMs : HvChange(id)
    \/ \E id \in VMs : \E action \in DOMAIN LifecycleTarget : Click(id, action)

\* The machine info objects alone, the daemon thread not scheduled.
SpecInfo == Init /\ [][NextInfo]_vars

(***************************************************************************)
(* The parsing functions.  A str is the sequence of its pieces: single     *)
(* characters, and a counter name (the argument of query_metric) as one    *)
(* piece.                                                                  *)
(***************************************************************************)
\* The largest of the small numbers the hypervisor output is made with.
MaxNum == 3

Whitespace == {" ", "\n", "\t"}

\* str.lstrip(chars)
RECURSIVE lstrip(_, _)
lstrip(s, chars) ==
    IF s # <<>> /\ Head(s) \in chars THEN lstrip(Tail(s), chars) ELSE s

\* str.rstrip(chars)
RECURSIVE rstrip(_, _)
rstrip(s, chars) ==
    IF s # <<>> /\ s[Len(s)] \in chars
    THEN rstrip(SubSeq(s, 1, Len(s) - 1), chars)
    ELSE s

\* str.strip(chars)
strip(s, chars) == lstrip(rstrip(s, chars), chars)

\* str.endswith
endswith(s, suffix) ==
    Len(suffix) <= Len(s) /\ SubSeq(s, Len(s) - Len(suffix) + 1, Len(s)) = suffix

DigitChars == <<"0", "1", "2", "3", "4", "5", "6", "7", "8", "9">>

IsDigit(c) == \E d \in 1..Len(DigitChars) : DigitChars[d] = c

DigitValue(c) == (CHOOSE d \in 1..Len(DigitChars) : DigitChars[d] = c) - 1

\* The number a run of digits writes.
RECURSIVE Decimal(_)
Decimal(s) ==
    IF s = <<>> THEN 0
    ELSE 10 * Decimal(SubSeq(s, 1, Len(s) - 1)) + DigitValue(s[Len(s)])

\* str(n) for a natural number
RECURSIVE str(_)
str(n) ==
    IF n < 10 THEN <<DigitChars[n + 1]>>
    ELSE str(n \div 10) \o <<DigitChars[(n % 10) + 1]>>

\* float(string), for the texts met here: white space around the number is
\* allowed, "nan" is NaN, a run of digits is its value, anything else
\* (the empty string too) raises ValueError.  The result is the exception
\* raised ("none") and the value returned.
float(string) ==
    LET t == strip(string, Whitespace) IN
    IF t = <<"n", "a", "n">> THEN [exc |-> "none", value |-> NaN]
    ELSE IF t # <<>> /\ \A i \in 1..Len(t) : IsDigit(t[i])
         THEN [exc |-> "none", value |-> Decimal(t)]
         ELSE [exc |-> "ValueError", value |-> NaN]

\* float(...) * factor: NaN stays NaN, an exception stays raised.
times(r, factor) ==
    IF r.exc = "none" /\ r.value # NaN THEN [r EXCEPT !.value = @ * factor] ELSE r

\* parse_percent
parse_percent(string) == float(strip(string, {"%"}))

\* parse_bytes with decimal units.
parse_bytes_decimal(string) ==
    LET s == str_casefold(strip(string, Whitespace)) IN
    IF endswith(s, <<" ", "b">>) THEN float(rstrip(s, {"b"}))
    ELSE IF endswith(s, <<" ", "k", "b">>)
         THEN times(float(rstrip(s, {"k", "b"})), 1000)
    ELSE IF endswith(s, <<" ", "m", "b">>)
         THEN times(times(float(rstrip(s, {"m", "b"})), 1000), 1000)
    ELSE IF endswith(s, <<" ", "g", "b">>)
         THEN times(times(times(float(rstrip(s, {"g", "b"})), 1000), 1000), 1000)
    ELSE float(s)

\* parse_bytes
parse_bytes(string) ==
    LET s == str_casefold(strip(string, Whitespace)) IN
    IF endswith(s, <<" ", "b">>) THEN float(rstrip(s, {"b"}))
    ELSE IF endswith(s, <<" ", "k", "b">>)
         THEN times(float(rstrip(s, {"k", "b"})), 1024)
    ELSE IF endswith(s, <<" ", "m", "b">>)
         THEN times(times(float(rstrip(s, {"m", "b"})), 1024), 1024)
    ELSE IF endswith(s, <<" ", "g", "b">>)
         THEN times(times(times(float(rstrip(s, {"g", "b"})), 1024), 1024), 1024)
    ELSE float(s)

\* str.find(sub, start) for a one-piece sub: the first index from start on
\* that holds it, 0 when there is none (Python's -1).
find(s, sub, start) ==
    IF \E i \in start..Len(s) : s[i] = sub
    THEN CHOOSE i \in start..Len(s) :
             s[i] = sub /\ \A j \in start..(i - 1) : s[j] # sub
    ELSE 0

\* A counter name without its last character.
Truncated ==
    [k \in Metrics |->
        CASE k = "Guest/CPU/Load/User" -> "Guest/CPU/Load/Use"
          [] k = "Guest/CPU/Load/Kernel" -> "Guest/CPU/Load/Kerne"
          [] k = "Guest/RAM/Usage/Total" -> "Guest/RAM/Usage/Tota"
          [] k = "Guest/RAM/Usage/Free" -> "Guest/RAM/Usage/Fre"
          [] k = "Disk/Usage/Used" -> "Disk/Usage/Use"
          [] k = "Guest/RAM/Usage/Cache" -> "Guest/RAM/Usage/Cach"]

\* s[start:end] of query_metric, end as find returned it.  With no newline
\* found the end is -1 and the slice stops before the last character of s:
\* a last piece of one character goes, a counter name loses its last one.
slice(s, start, end) ==
    IF end # 0 THEN SubSeq(s, start, end - 1)
    ELSE IF s[Len(s)] \in Metrics
         THEN SubSeq(s, start, Len(s) - 1) \o <<Truncated[s[Len(s)]]>>
         ELSE SubSeq(s, start, Len(s) - 1)

\* str.replace(name, "")
remove(s, name) == SelectSeq(s, LAMBDA c : c # name)

\* converter(string) for the converter of that name.
convert(converter, string) ==
    IF converter = "parse_percent" THEN parse_percent(string)
    ELSE parse_bytes(string)

\* VirtualMachine.query_metric once run has returned stdout.
query_metric(stdout, name, converter) ==
    LET metric_name_index == find(stdout, name, 1) IN
    IF metric_name_index = 0 THEN convert(converter, <<"n", "a", "n">>)
    ELSE LET end_of_line_index == find(stdout, "\n", metric_name_index)
             line_with_metric_name ==
                 slice(stdout, metric_name_index, end_of_line_index)
             data == strip(remove(line_with_metric_name, name), Whitespace)
         IN IF Len(data) = 0 THEN convert(converter, <<"n", "a", "n">>)
            ELSE convert(converter, data)

\* The converter _query_metrics passes with each counter.
PercentCounters == {"Guest/CPU/Load/Kernel", "Guest/CPU/Load/User"}

\* vm.query_metric(K.value, parser) as _query_metrics calls it.
query(name, stdout) ==
    IF name \in PercentCounters
    THEN query_metric(stdout, name, "parse_percent")
    ELSE query_metric(stdout, name, "parse_bytes")

\* The numbers the texts are made with.
Nums == (0..MaxNum) \cup {512, 1024}

\* The spellings of the unit of 1024^k bytes.
UnitSpellings ==
    [k \in 0..3 |->
        CASE k = 0 -> {<<"B">>, <<"b">>}
          [] k = 1 -> {<<"K", "B">>, <<"k", "b">>, <<"k", "B">>, <<"K", "b">>}
          [] k = 2 -> {<<"M", "B">>, <<"m", "b">>, <<"m", "B">>, <<"M", "b">>}
          [] k = 3 -> {<<"G", "B">>, <<"g", "b">>, <<"g", "B">>, <<"G", "b">>}]

\* What stands between the number and the unit.
Seps == {<<>>, <<" ">>, <<" ", " ">>}

\* The numbers written with the unit of 1024^k: all of them, short of what
\* a 32-bit integer holds.
NumsOf(k) == IF k = 3 THEN {0, 1} ELSE Nums

\* Arguments of parse_bytes: a number and a unit, a number alone, a number
\* with space around it, and texts that are no size.
ByteTexts ==
    {str(nku[1]) \o nku[2] \o nku[3] :
        nku \in UNION {NumsOf(k) \X Seps \X UnitSpellings[k] : k \in 0..3}}
    \cup {str(n) : n \in Nums}
    \cup {<<" ">> \o str(n) \o <<" ", "M", "B", "\n">> : n \in Nums}
    \cup {<<>>, <<"n", "a", "n">>, <<"x">>, <<"2", " ", "T", "B">>,
          <<"1", " ", "b", " ", "b">>}

\* The value column of a "metrics query" line for a counter.
ValueText(name, n) ==
    IF name \in PercentCounters THEN str(n) \o <<"%">>
    ELSE str(n) \o <<" ", "k", "B">>

\* Outputs of "metrics query" for a counter: nothing, the header alone, a
\* line for another counter, the counter's line with a value, with an empty
\* value, with text that is no value, and the same cut off before the
\* newline.
QueryTexts(name) ==
    {<<>>, <<"O", "\n">>,
     <<name, "\n">>, <<name, " ", "\n">>, <<"O", "\n", "v", " ", name, " ", " ", "\n">>,
     <<name, " ", name, "\n">>,
     <<name>>, <<name, " ">>, <<"O", "\n", "v", " ", name>>,
     <<name, " ", "x", "\n">>}
    \cup {<<"O", "\n", "v", " ", other, " ", "1", "\n">> : other \in Metrics \ {name}}
    \cup {<<"O", "\n", "v", " ", name, " ">> \o ValueText(name, n) \o <<"\n">> : n \in Nums}
    \cup {<<name, "\n", name, " ">> \o ValueText(name, n) \o <<"\n">> : n \in Nums}
    \cup {<<name, " ">> \o ValueText(name, n) : n \in Nums}

\* The spellings of each raw state value.
StateSpellings ==
    [running |-> {"running", "Running", "RUNNING"},
     poweroff |-> {"poweroff", "PowerOff", "POWEROFF"},
     paused |-> {"paused", "Paused", "PAUSED"},
     saving |-> {"saving", "Saving", "SAVING"},
     saved |-> {"saved", "Saved", "SAVED"},
     restoring |-> {"restoring", "Restoring", "RESTORING"},
     aborted |-> {"aborted", "Aborted", "ABORTED"},
     other |-> {"other", "Other", "OTHER"}]

\* Outputs of showvminfo whose VMState is none of these: another word, two
\* words, the empty value, no VMState line, no line.
UnknownStateTexts ==
    {Dump("bogus"), Dump("Stuck"),
     <<<<"VMState", "=", "\"", "powered", "off", "\"">>>>,
     <<<<"VMState", "=", "\"", "\"">>>>,
     SubSeq(Dump("running"), 2, 3),
     <<>>}

InfoTexts ==
    {Dump(w) : w \in UNION {StateSpellings[v] : v \in DOMAIN StateSpellings}}
    \cup UnknownStateTexts
    \cup {<<<<"VMState", "=", "running">>>>}

\* parse_bytes(string)
CallParseBytes ==
    /\ \E string \in ByteTexts :
         call' = [fn |-> "parse_bytes", arg |-> string, name |-> "none",
                  ret |-> parse_bytes(string)]
    /\ UNCHANGED <<daemonVars, readerVars, infoVars>>

\* vm.query_metric(name, parser) with the run returning stdout
CallQueryMetric ==
    /\ \E name \in Metrics :
       \E stdout \in QueryTexts(name) :
         call' = [fn |-> "query_metric", arg |-> stdout, name |-> name,
                  ret |-> query(name, stdout)]
    /\ UNCHANGED <<daemonVars, readerVars, infoVars>>

\* VirtualMachineInfo.state on the snapshot a reload makes of stdout
CallState ==
    /\ \E stdout \in InfoTexts :
         LET member == state(reload(<<>>, [exc |-> "none", returncode |-> 0,
                                           stdout |-> stdout]).info)
         IN call' = [fn |-> "state", arg |-> stdout, name |-> "none",
                     ret |-> IF member \in DOMAIN VMStateMembers
                             THEN [exc |-> "none", value |-> member]
                             ELSE [exc |-> member, value |-> "none"]]
    /\ UNCHANGED <<daemonVars, readerVars, infoVars>>

NextParse ==
    \/ CallParseBytes
    \/ CallQueryMetric
    \/ CallState

\* The parsing functions alone, called on one argument after another.
SpecParse == Init /\ [][NextParse]_vars

(***************************************************************************)
(* Properties.                                                             *)
(***************************************************************************)
\* The daemon has appended to series k of machine id and not yet evicted.
MidUpdate(id, k) ==
    pc = "pop" /\ id = Head(todo) /\ k = QueryOrder[ctr]

\* The step is a resynchronization that returned.
ResyncStep == pc = "refresh" /\ pc' = "list"

IsPrefix(a, b) == Len(a) <= Len(b) /\ SubSeq(b, 1, Len(a)) = a

LastN(s, n) == SubSeq(s, Len(s) - n + 1, Len(s))

\* C1: whenever the daemon is not between the append and the pop(0) of a
\* series, every series of every entry of the store (the six counters and
\* time_stamp) has length exactly tick_number.
C1_SeriesLength ==
    \A id \in DOMAIN metrics :
        /\ DOMAIN metrics[id] = Keys
        /\ \A k \in Keys :
              MidUpdate(id, k) \/ Len(metrics[id][k]) = tick_number

\* C1 witness: a later tick in which some counters were appended and evicted
\* and then a query failed, after at least one resynchronization.
C1_Witness ==
    /\ pc = "dead"
    /\ ticks > 1
    /\ failed # {}
    /\ appended # {}

\* C2 (as claimed): a reader never finds a counter series whose length
\* differs from tick_number or from the length of the machine's time_stamp.
C2_ReaderSeesWholeSeries ==
    rdObs.err = "none" => rdObs.len = tick_number /\ rdObs.len = rdObs.ts

\* C3 (as claimed): once the for loop of a tick in which a query failed is
\* over, every other counter of every machine the loop was given has been
\* appended in that loop.
C3_Isolation ==
    (failed # {} /\ pc \in {"sleep", "loop", "done", "dead"}) =>
        \A id \in listed : \A k \in Metrics :
            <<id, k>> \in failed \cup appended

\* C4 (as claimed): a failed counter query does not end the daemon thread.
C4_FailureKeepsDaemon ==
    failed # {} => pc # "dead"

C6_FailedQueryLeavesSeries ==
    [][\A p \in failed' \ failed :
          /\ p[1] \in DOMAIN metrics'
          /\ metrics'[p[1]][p[2]] = metrics[p[1]][p[2]]]_vars

\* C6 witness: a query failed on a series that holds real samples, after
\* another counter was appended in the same loop.
C6_Witness ==
    /\ appended # {}
    /\ \E p \in failed : hist[p[1]][p[2]] # <<>>

\* C7: a resynchronization leaves the entry of every machine that had one
\* and is still discovered exactly as it was.
C7_ResyncKeepsHistory ==
    [][ResyncStep =>
          \A id \in DOMAIN metrics \cap listed' :
              /\ id \in DOMAIN metrics'
              /\ metrics'[id] = metrics[id]]_vars

\* C7 witness: a resynchronization has kept an entry that holds samples and
\* has added an entry for a machine not seen before.
C7_Witness ==
    /\ pc = "list"
    /\ \E id \in before \cap DOMAIN metrics :
          \A k \in Metrics : hist[id][k] # <<>>
    /\ DOMAIN metrics \ before # {}

\* An entry as it is created: six counters of tick_number NaN samples and
\* tick_number time stamps, non-decreasing, from -(tick_number x interval)
\* to 0.
WellSeeded(e) ==
    /\ DOMAIN e = Keys
    /\ \A k \in Metrics :
          Len(e[k]) = tick_number /\ \A i \in 1..tick_number : e[k][i] = NaN
    /\ Len(e["time_stamp"]) = tick_number
    /\ e["time_stamp"][1] = -(tick_number * interval_seconds)
    /\ e["time_stamp"][tick_number] = 0
    /\ \A i \in 1..(tick_number - 1) :
          e["time_stamp"][i] <= e["time_stamp"][i + 1]

\* C8: the entries made by the constructor, and every entry a
\* resynchronization makes for an id the store does not hold, are well
\* seeded.
C8_NewEntrySeeded ==
    /\ \A id \in DOMAIN metrics : WellSeeded(metrics[id])
    /\ [][ResyncStep =>
            \A id \in listed' \ DOMAIN metrics :
                id \in DOMAIN metrics' /\ WellSeeded(metrics'[id])]_vars

\* C8 witness: a resynchronization inside the loop has just made an entry.
C8_Witness ==
    /\ pc = "list"
    /\ DOMAIN metrics \ before # {}

\* C9: a counter series that is not between append and pop(0) equals the
\* last tick_number elements of the NaN seeds followed by the values
\* appended since the entry was made, oldest first.
C9_RollingWindow ==
    \A id \in DOMAIN metrics : \A k \in Metrics :
        MidUpdate(id, k) \/
        metrics[id][k] = LastN(nan_series \o hist[id][k], tick_number)

\* C9 witness: more than tick_number values were appended to a series, so a
\* real sample has been evicted.
C9_Witness ==
    \E id \in DOMAIN metrics : \E k \in Metrics :
        /\ ~MidUpdate(id, k)
        /\ Len(hist[id][k]) > tick_number
        /\ \E i \in 1..Len(hist[id][k]) : hist[id][k][i] # NaN

\* An invocation that failed: the process could not run, or it returned a
\* nonzero exit code.
InvocationFailed(out) == out.exc # "none" \/ out.returncode # 0

\* C10 (as claimed): a reload whose showvminfo invocation failed leaves the
\* snapshot as it was and raises to its caller.
C10_ReloadFailureKeepsSnapshot ==
    [][\A id \in DOMAIN _info :
          \A out \in ShowVmInfoOutcomes(hvState[id]) :
              (InvocationFailed(out) /\ ReloadWith(id, out)) =>
                  (_info'[id] = _info[id] /\ raised' # "none")]_vars

\* C11 (as claimed): a lifecycle button handler that has run issued its
\* hypervisor command exactly once, reloaded the machine's info exactly
\* once, and reported success if and only if the reloaded state is the
\* target state of its action, failure otherwise.
C11_OneCommandOneReload ==
    lc.action # "none" =>
        /\ lc.issued = 1
        /\ lc.reloads = 1
        /\ lc.report \in {"success", "failure"}
        /\ lc.report = "success" <=> lc.state = LifecycleTarget[lc.action]


\* The invocation returned, with a nonzero exit code.
NonzeroExit(out) == out.exc = "none" /\ out.returncode # 0

\* C12: a nonzero exit code of the list-machines command is fatal to
\* discovery (list_vm raises AssertionError and yields no machine, whatever
\* the output holds, and the caller's step ends there with the store and
\* the machines to process untouched); a nonzero exit code of the enable,
\* collect and setup commands is returned by run and the caller goes on to
\* its next step as after exit code 0.
C12_NonzeroExit ==
    [][/\ \A out \in ListOutcomes :
            NonzeroExit(out) =>
                /\ list_vm(out) = [exc |-> "AssertionError", ids |-> <<>>]
                /\ RefreshWith(out) =>
                       pc' = "dead" /\ cause' = "AssertionError" /\ metrics' = metrics
                /\ ListVmsWith(out) =>
                       pc' = "dead" /\ cause' = "AssertionError" /\ todo' = todo
       /\ \A out \in CollectOutcomes :
            NonzeroExit(out) =>
                /\ run(out).exc = "none" /\ run(out).returncode = out.returncode
                /\ EnableWith(out) => pc' = "collect" /\ cause' = "none"
                /\ CollectCore(out) => pc' = "refresh" /\ cause' = "none"
                /\ SetupWith(out) => pc' = "query" /\ cause' = "none"]_vars

\* C12 witness: a list-machines call inside the loop exited nonzero and the
\* assertion ended the daemon's tick.
C12_Witness == pc = "dead" /\ cause = "AssertionError" /\ ticks >= 1

\* C13: a metrics_collect run that times out raises nothing into the loop:
\* the daemon goes on to the resynchronization of the same tick, a timeout
\* is never what ends the daemon, and a tick whose collection timed out
\* reaches its sleep only with every counter of every machine of its loop
\* discovery queried and appended.
C13_TimeoutSwallowed ==
    [][/\ \A out \in CollectOutcomes :
            (run(out).exc = "TimeoutExpired" /\ CollectCore(out)) =>
                (pc' = "refresh" /\ cause' = "none")
       /\ cause' # "TimeoutExpired"
       /\ (timedOut' /\ pc' = "sleep") =>
              \A id \in listed' : \A k \in Metrics : <<id, k>> \in appended']_vars

\* C13 witness: the collection of a tick timed out and the tick went on
\* through both machines' setup and all twelve queries to its sleep.
C13_Witness ==
    /\ timedOut
    /\ pc = "sleep"
    /\ listed = VMs
    /\ \A id \in VMs : \A k \in Metrics : <<id, k>> \in appended

\* C14: no step changes the time_stamp series of an entry that is in the
\* store before and after the step.
C14_TimeStampFrame ==
    [][\A id \in DOMAIN metrics \cap DOMAIN metrics' :
          metrics'[id]["time_stamp"] = metrics[id]["time_stamp"]]_vars

\* C14 witness: an entry lived through a resynchronization and two rounds of
\* appends and evictions on all its counters, its time_stamp series still
\* the one it was made with.
C14_Witness ==
    /\ pc = "sleep"
    /\ \E id \in DOMAIN metrics \cap before :
         /\ \A k \in Metrics : Len(hist[id][k]) >= 2
         /\ metrics[id]["time_stamp"] = time_stamps

\* The variant each raw state value is to decode to.
VariantOf ==
    [running |-> "Running", poweroff |-> "PowerOff", paused |-> "Paused",
     saving |-> "Saving", saved |-> "Saved", restoring |-> "Restoring",
     aborted |-> "Aborted", other |-> "Other"]

\* C15: state never raises and returns a VMState variant for every
\* snapshot; running, poweroff, paused, saving, saved, restoring and aborted,
\* in any letter case, decode to their own variants; every other raw value,
\* the empty one and a snapshot without the VMState key decode to Other.
C15_StateDecodingTotal ==
    call.fn = "state" =>
        /\ call.ret.exc = "none"
        /\ call.ret.value \in DOMAIN VMStateMembers
        /\ \A v \in DOMAIN StateSpellings : \A w \in StateSpellings[v] :
              call.arg = Dump(w) => call.ret.value = VariantOf[v]
        /\ call.arg \in UnknownStateTexts => call.ret.value = "Other"

\* C15 witness: a snapshot whose VMState is written in upper case was
\* decoded to its variant.
C15_Witness ==
    /\ call.fn = "state"
    /\ call.arg = Dump("PAUSED")
    /\ call.ret = [exc |-> "none", value |-> "Paused"]

\* The counter name does not occur in the text.
NameAbsent(s, name) == \A i \in 1..Len(s) : s[i] # name

\* The line from the first occurrence of the name on: up to the next
\* newline, or to the end of the text.
LineAfterFirst(s, name) ==
    LET first == CHOOSE i \in 1..Len(s) :
                     s[i] = name /\ \A j \in 1..(i - 1) : s[j] # name
        newlines == {j \in first..Len(s) : s[j] = "\n"}
        last == IF newlines = {} THEN Len(s)
                ELSE (CHOOSE j \in newlines : \A j2 \in newlines : j <= j2) - 1
    IN SubSeq(s, first, last)

\* Nothing is left of that line once the name is removed and white space
\* trimmed.
RestEmpty(s, name) ==
    \A c \in Range(LineAfterFirst(s, name)) : c = name \/ c \in Whitespace

\* C16 (as claimed): query_metric returns NaN and raises nothing whenever the
\* counter name does not occur in the output, or the rest of the line after
\* its first occurrence is empty once the name is removed and white space
\* trimmed.
C16_NaNWhenNoData ==
    (call.fn = "query_metric"
     /\ (NameAbsent(call.arg, call.name) \/ RestEmpty(call.arg, call.name)))
        => call.ret = [exc |-> "none", value |-> NaN]

\* C17 (as claimed): n followed by a unit token in any letter case, with or
\* without a space before it, parses to n * 1024^k; n alone parses to n.
C17_SpaceOptional ==
    call.fn = "parse_bytes" =>
        /\ \A k \in 0..3 : \A n \in NumsOf(k) : \A u \in UnitSpellings[k] :
           \A sep \in {<<>>, <<" ">>} :
              call.arg = str(n) \o sep \o u =>
                  call.ret = [exc |-> "none", value |-> n * 1024^k]
        /\ \A n \in Nums :
              call.arg = str(n) => call.ret = [exc |-> "none", value |-> n]

\* C17 (amended): n followed by one or more spaces and a unit token in any
\* letter case parses to n * 1024^k; n alone parses to n; n with the unit
\* token right after it, no space between, raises ValueError.
C17_SpaceRequired ==
    call.fn = "parse_bytes" =>
        /\ \A k \in 0..3 : \A n \in NumsOf(k) : \A u \in UnitSpellings[k] :
              /\ \A sep \in Seps \ {<<>>} :
                    call.arg = str(n) \o sep \o u =>
                        call.ret = [exc |-> "none", value |-> n * 1024^k]
              /\ call.arg = str(n) \o u => call.ret.exc = "ValueError"
        /\ \A n \in Nums :
              call.arg = str(n) => call.ret = [exc |-> "none", value |-> n]

\* C17 witness: "2 MB" was parsed to 2 * 1024 * 1024.
C17_Witness ==
    /\ call.fn = "parse_bytes"
    /\ call.arg = <<"2", " ", "M", "B">>
    /\ call.ret = [exc |-> "none", value |-> 2 * 1024 * 1024]

\* The counters of machine id appended and evicted in the current for loop.
Done(id) == {k \in Metrics : <<id, k>> \in appended}

\* The first n counters of the query order.
FirstCounters(n) == {QueryOrder[i] : i \in 1..n}

\* Where the daemon's next step may lead from each place of the tick.
PcOrder ==
    CASE pc = "loop" -> pc' \in {"loop", "enable", "done"}
      [] pc = "enable" -> pc' \in {"enable", "collect", "dead"}
      [] pc = "collect" -> pc' \in {"collect", "refresh", "dead"}
      [] pc = "refresh" -> pc' \in {"refresh", "list", "dead"}
      [] pc = "list" -> pc' \in {"list", "setup", "sleep", "dead"}
      [] pc = "setup" -> pc' \in {"setup", "query", "dead"}
      [] pc = "query" -> pc' \in {"query", "pop", "dead"}
      [] pc = "pop" -> pc' \in {"pop", "query", "store"}
      [] pc = "store" -> pc' \in {"store", "setup", "sleep"}
      [] pc = "sleep" -> pc' \in {"sleep", "loop"}
      [] OTHER -> pc' = pc

\* What has been appended and evicted at each place of the for loop.
AppendOrder ==
    /\ pc = "setup" => Done(Head(todo)) = {}
    /\ pc \in {"query", "pop"} => Done(Head(todo)) = FirstCounters(ctr - 1)
    /\ pc = "store" => Done(Head(todo)) = Metrics
    /\ pc \in {"setup", "query", "pop", "store"} =>
          \A id \in listed \ Range(todo) : Done(id) = Metrics
    /\ pc = "sleep" => todo = <<>> /\ \A id \in listed : Done(id) = Metrics

\* C18: the steps of a tick come in the order enable, collect,
\* resynchronization, loop discovery, then per machine setup and the six
\* counters in the fixed query order, each counter appended and evicted
\* before the next is queried, and the sleep after the last machine.
C18_TickOrder == [][PcOrder /\ AppendOrder']_vars

\* C18 witness: the second machine of a tick has had its sixth counter
\* appended and evicted, the first machine all of its six before.
C18_Witness ==
    /\ pc = "store"
    /\ todo = <<"vm2">>
    /\ listed = VMs
    /\ Done("vm1") = Metrics /\ Done("vm2") = Metrics

\* C19 (as claimed): while keep_alive is set, and every external command
\* the daemon ran could be run and returned, the daemon thread has not
\* ended, neither by leaving the loop nor by an exception.
C19_OnlyFlagEndsLoop ==
    (keep_alive /\ cause # "OSError") => pc \notin {"done", "dead"}

\* C20 (as claimed): the machine whose counter the daemon is about to query
\* and append has an entry in the store.
C20_ProcessedMachineHasEntry == pc = "query" => Head(todo) \in DOMAIN metrics

\* C21 (as claimed): a reader that took a machine from its own discovery
\* call and read a series of it found the machine's entry in the store:
\* the read raised no KeyError.
C21_ReaderFindsEntry == rdObs.err # "KeyError"

\* The daemon is between two ticks, or its thread has ended.
BetweenTicksOrStopped == pc \in {"loop", "sleep", "done", "dead"}

\* C22 (as claimed): whenever the daemon is between ticks or has stopped,
\* the six counter series of every entry have had the same number of
\* appends since the entry was made.
C22_SameNumberOfAppends ==
    BetweenTicksOrStopped =>
        \A id \in DOMAIN metrics : \A k1 \in Metrics : \A k2 \in Metrics :
            Len(hist[id][k1]) = Len(hist[id][k2])

====
